---------------------------- MODULE Spec2Model ----------------------------
(***************************************************************************)
(* The command handlers of src-tauri/src/main.rs: the three shell          *)
(* launchers, path_kind, save_text_file / read_text_file, the async        *)
(* graph_device_code_start, and the command table main() registers.        *)
(* The handlers are thin wrappers over std::fs, std::process and reqwest;  *)
(* what those calls do to the file system, the process table and the       *)
(* network is the state of the model.                                      *)
(***************************************************************************)
EXTENDS Integers, Sequences, FiniteSets, TLC

VARIABLES
    target_os,  \* the #[cfg(target_os = ...)] branch compiled in
    fs,         \* path -> node: the file system std::fs acts on
    fs0,        \* the file system at start-up (never changes)
    running,    \* frames of synchronous handlers that are mid-execution
    last,       \* the most recent reply of a command run on the main thread
    mark,       \* path -> what the latest save that got to write to it did
    everSaved,  \* <<path, text>> of every save that has returned Ok
    procs,      \* every Command::spawn attempted, in order
    tasks,      \* graph_device_code_start futures, in order of creation
    wire        \* every HTTP request handed to the network, in order

vars == <<target_os, fs, fs0, running, last, mark, everSaved,
          procs, tasks, wire>>

-----------------------------------------------------------------------------
(* Bounds of the model. *)

\* longest `contents` argument, in chars
MaxLen == 1
\* most processes spawned in one run
MaxProcs == 2
\* most graph_device_code_start futures created in one run
MaxTasks == 2

-----------------------------------------------------------------------------
(* Result<T, String> *)

Ok(v) == [ok |-> TRUE, val |-> v, err |-> "-"]

Err(e) == [ok |-> FALSE, val |-> "-", err |-> e]

\* the unit value ()
Unit == "()"

-----------------------------------------------------------------------------
(* String <-> bytes.  A Rust String is a sequence of Unicode scalar values *)
(* held as UTF-8; fs::write stores its bytes, read_to_string validates the *)
(* bytes it read as UTF-8.                                                  *)

\* 'A' (1 byte) and e-acute (2 bytes)
Chars == {65, 233}

RECURSIVE SeqsUpTo(_, _)
SeqsUpTo(S, n) ==
    IF n = 0 THEN {<<>>}
    ELSE LET shorter == SeqsUpTo(S, n - 1)
         IN  shorter \cup {Append(s, c) : s \in shorter, c \in S}

\* the `contents` arguments tried
\* (every text of up to MaxLen chars, and the euro sign, 3 bytes, before an 'A')
Texts == SeqsUpTo(Chars, MaxLen) \cup {<<8364, 65>>}

\* faulty variant: a char narrowed to one byte, `c as u8`
EncodeCharNarrowed(c) == <<c % 256>>

EncodeChar(c) ==
    IF c < 128 THEN <<c>>
    ELSE IF c < 2048 THEN <<192 + (c \div 64), 128 + (c % 64)>>
    ELSE IF c < 65536 THEN
        <<224 + (c \div 4096), 128 + ((c \div 64) % 64), 128 + (c % 64)>>
    ELSE <<240 + (c \div 262144), 128 + ((c \div 4096) % 64),
           128 + ((c \div 64) % 64), 128 + (c % 64)>>

RECURSIVE as_bytes(_)
as_bytes(text) ==
    IF text = <<>> THEN <<>>
    ELSE EncodeChar(Head(text)) \o as_bytes(Tail(text))

\* length of the UTF-8 sequence a leading byte announces, 0 when it cannot lead
Utf8Width(b0) ==
    IF b0 < 128 THEN 1
    ELSE IF b0 \in 194..223 THEN 2
    ELSE IF b0 \in 224..239 THEN 3
    ELSE IF b0 \in 240..244 THEN 4
    ELSE 0

IsCont(b) == b \in 128..191

\* the bytes after the leading one are in the ranges the leading byte allows
\* (no overlong forms, no surrogates, nothing above U+10FFFF)
Utf8Valid(b, n) ==
    CASE n = 1 -> TRUE
      [] n = 2 -> IsCont(b[2])
      [] n = 3 -> /\ IsCont(b[3])
                  /\ IF b[1] = 224 THEN b[2] \in 160..191
                     ELSE IF b[1] = 237 THEN b[2] \in 128..159
                     ELSE IsCont(b[2])
      [] n = 4 -> /\ IsCont(b[3]) /\ IsCont(b[4])
                  /\ IF b[1] = 240 THEN b[2] \in 144..191
                     ELSE IF b[1] = 244 THEN b[2] \in 128..143
                     ELSE IsCont(b[2])

Utf8Scalar(b, n) ==
    CASE n = 1 -> b[1]
      [] n = 2 -> (b[1] - 192) * 64 + (b[2] - 128)
      [] n = 3 -> (b[1] - 224) * 4096 + (b[2] - 128) * 64 + (b[3] - 128)
      [] n = 4 -> (b[1] - 240) * 262144 + (b[2] - 128) * 4096
                  + (b[3] - 128) * 64 + (b[4] - 128)

RECURSIVE from_utf8(_)
from_utf8(b) ==
    IF b = <<>> THEN [ok |-> TRUE, text |-> <<>>]
    ELSE LET n == Utf8Width(b[1])
         IN  IF n = 0 \/ Len(b) < n THEN [ok |-> FALSE, text |-> <<>>]
             ELSE IF ~Utf8Valid(b, n) THEN [ok |-> FALSE, text |-> <<>>]
             ELSE LET rest == from_utf8(SubSeq(b, n + 1, Len(b)))
                  IN  IF rest.ok
                      THEN [ok |-> TRUE,
                            text |-> <<Utf8Scalar(b, n)>> \o rest.text]
                      ELSE rest

-----------------------------------------------------------------------------
(* io::Error::to_string(): the OS message followed by the error number.    *)

ErrText(errno) ==
    CASE errno = "ENOENT"  -> "No such file or directory (os error 2)"
      [] errno = "EACCES"  -> "Permission denied (os error 13)"
      [] errno = "ENOTDIR" -> "Not a directory (os error 20)"
      [] errno = "EISDIR"  -> "Is a directory (os error 21)"
      [] errno = "EEXIST"  -> "File exists (os error 17)"
      [] errno = "ENOSPC"  -> "No space left on device (os error 28)"
      [] errno = "EAGAIN"  -> "Resource temporarily unavailable (os error 11)"
      [] errno = "INVALID_UTF8" -> "stream did not contain valid UTF-8"

-----------------------------------------------------------------------------
(* The file system.  A node is absent, a regular file, a directory or a    *)
(* special file (a character device that discards what is written and      *)
(* reads as empty).  r / w are what the process may do: read or write a    *)
(* file, search or add entries to a directory.                             *)

Paths == {"/d", "/d/a", "/d/null", "/ro", "/ro/c", "/priv", "/priv/s",
          "/nx", "/nx/e"}

Parent(p) ==
    CASE p \in {"/d/a", "/d/null"} -> "/d"
      [] p = "/ro/c"   -> "/ro"
      [] p = "/priv/s" -> "/priv"
      [] p = "/nx/e"   -> "/nx"
      [] OTHER         -> "/"

Absent == [kind |-> "absent", data |-> <<>>, r |-> FALSE, w |-> FALSE]

File(bytes, r, w) == [kind |-> "file", data |-> bytes, r |-> r, w |-> w]

Dir(r, w) == [kind |-> "dir", data |-> <<>>, r |-> r, w |-> w]

Special == [kind |-> "special", data |-> <<>>, r |-> TRUE, w |-> TRUE]

\* the root directory: searchable, and the process may not add entries to it
Root == Dir(TRUE, FALSE)

NodeAt(f, p) == IF p = "/" THEN Root ELSE f[p]

\* walking to p's directory entry: "OK", or the errno the walk ends with
Lookup(f, p) ==
    LET d == NodeAt(f, Parent(p))
    IN  CASE d.kind = "absent" -> "ENOENT"
          [] d.kind \in {"file", "special"} -> "ENOTDIR"
          [] d.kind = "dir" /\ ~d.r -> "EACCES"
          [] OTHER -> "OK"

\* std::fs::metadata: stat(2)
metadata(f, p) ==
    IF Lookup(f, p) # "OK" THEN [ok |-> FALSE, errno |-> Lookup(f, p)]
    ELSE IF f[p].kind = "absent" THEN [ok |-> FALSE, errno |-> "ENOENT"]
    ELSE [ok |-> TRUE, is_dir |-> (f[p].kind = "dir")]

\* faulty variant: the file opened without O_TRUNC: OpenOptions::new().write(true).create(true)
FileCreateNoTrunc(f, p, room) ==
    LET n == f[p]
        no(e) == [ok |-> FALSE, errno |-> e, fs |-> f]
        yes(node) == [ok |-> TRUE, errno |-> "OK",
                      fs |-> [f EXCEPT ![p] = node]]
    IN  IF Lookup(f, p) # "OK" THEN no(Lookup(f, p))
        ELSE CASE n.kind = "dir" -> no("EISDIR")
               [] n.kind = "absent" ->
                    IF ~NodeAt(f, Parent(p)).w THEN no("EACCES")
                    ELSE IF ~room THEN no("ENOSPC")
                    ELSE yes(File(<<>>, TRUE, TRUE))
               [] n.kind \in {"file", "special"} ->
                    IF ~n.w THEN no("EACCES") ELSE yes(n)

\* faulty variant: the file opened with an existence check: File::create_new, O_EXCL
FileCreateNew(f, p, room) ==
    LET n == f[p]
        no(e) == [ok |-> FALSE, errno |-> e, fs |-> f]
        yes(node) == [ok |-> TRUE, errno |-> "OK",
                      fs |-> [f EXCEPT ![p] = node]]
    IN  IF Lookup(f, p) # "OK" THEN no(Lookup(f, p))
        ELSE IF n.kind # "absent" THEN no("EEXIST")
        ELSE IF ~NodeAt(f, Parent(p)).w THEN no("EACCES")
        ELSE IF ~room THEN no("ENOSPC")
        ELSE yes(File(<<>>, TRUE, TRUE))

\* File::create inside fs::write: open(O_WRONLY | O_CREAT | O_TRUNC, 0o666).
\* room: whether the volume can take a new directory entry.
FileCreate(f, p, room) ==
    LET n == f[p]
        no(e) == [ok |-> FALSE, errno |-> e, fs |-> f]
        yes(node) == [ok |-> TRUE, errno |-> "OK",
                      fs |-> [f EXCEPT ![p] = node]]
    IN  IF Lookup(f, p) # "OK" THEN no(Lookup(f, p))
        ELSE CASE n.kind = "dir" -> no("EISDIR")
               [] n.kind = "absent" ->
                    IF ~NodeAt(f, Parent(p)).w THEN no("EACCES")
                    ELSE IF ~room THEN no("ENOSPC")
                    ELSE yes(File(<<>>, TRUE, TRUE))
               [] n.kind = "file" ->
                    IF ~n.w THEN no("EACCES")
                    ELSE yes([n EXCEPT !.data = <<>>])
               [] n.kind = "special" ->
                    IF ~n.w THEN no("EACCES") ELSE yes(n)

\* write_all inside fs::write, on the file File::create opened, from offset 0:
\* k of the bytes reach the file, over what it holds; all of them on success,
\* fewer when the volume fills up.
WriteAll(f, p, bytes, k) ==
    LET n == f[p]
        kept == SubSeq(n.data, k + 1, Len(n.data))
    IN  IF n.kind = "file"
        THEN [ok |-> k = Len(bytes),
              fs |-> [f EXCEPT ![p] =
                        [n EXCEPT !.data = SubSeq(bytes, 1, k) \o kept]]]
        ELSE [ok |-> TRUE, fs |-> f]

\* faulty variant: a failed read turned into empty text: .unwrap_or_default()
read_to_string_or_default(f, p) ==
    LET n == f[p]
    IN  IF Lookup(f, p) = "OK" /\ n.kind \in {"file", "special"} /\ n.r
             /\ from_utf8(n.data).ok
        THEN Ok(from_utf8(n.data).text)
        ELSE Ok(<<>>)

\* std::fs::read_to_string: open(O_RDONLY), read to the end, validate UTF-8
read_to_string(f, p) ==
    LET n == f[p]
    IN  IF Lookup(f, p) # "OK" THEN Err(ErrText(Lookup(f, p)))
        ELSE CASE n.kind = "absent" -> Err(ErrText("ENOENT"))
               [] ~n.r              -> Err(ErrText("EACCES"))
               [] n.kind = "dir"    -> Err(ErrText("EISDIR"))
               [] OTHER ->
                    LET s == from_utf8(n.data)
                    IN  IF s.ok THEN Ok(s.text)
                        ELSE Err(ErrText("INVALID_UTF8"))

-----------------------------------------------------------------------------
(* The host runtime.  main() hands generate_handler! the commands it can   *)
(* dispatch.  A command declared `fn` runs on the runtime's main thread    *)
(* from invocation to return; a command declared `async fn` becomes a      *)
(* future on the async runtime.                                            *)

\* the names the front end may invoke (the command surface)
CommandSurface ==
    {"open_url", "open_folder", "reveal_in_finder", "path_kind",
     "save_text_file", "read_text_file", "graph_device_code_start"}

\* tauri::generate_handler![...] in main()
invoke_handler ==
    {"open_url", "open_folder", "reveal_in_finder", "path_kind",
     "save_text_file", "read_text_file"}

\* the runtime's reply to a name that is not in the command table
NotFound(name) ==
    IF name = "graph_device_code_start"
    THEN "Command graph_device_code_start not found"
    ELSE "Command not found"

\* a reply: the command, its path / url argument, and its result
Reply(cmd, arg, ret) == [cmd |-> cmd, arg |-> arg, ret |-> ret]

NoReply == Reply("none", "", Ok(Unit))

\* the handler returns: its result goes back to the front end
Return(cmd, arg, ret) == last' = Reply(cmd, arg, ret)

\* a synchronous command starts only when no other one is on the main thread
MainThreadFree == running = {}

Reject(name) ==
    /\ MainThreadFree
    /\ Return(name, "", Err(NotFound(name)))
    /\ UNCHANGED <<target_os, fs, fs0, running, mark, procs, tasks, wire>>

\* the runtime dispatches an invocation by name
Invoke(name, handler) ==
    IF name \in invoke_handler THEN handler ELSE Reject(name)

-----------------------------------------------------------------------------
(* path_kind *)

\* faulty variant: the test turned round: if meta.is_file() { "file" } else { "folder" }
path_kind_by_is_file(f, path) ==
    LET m == metadata(f, path)
    IN  IF m.ok THEN Ok(IF f[path].kind = "file" THEN "file" ELSE "folder")
        ELSE Err(ErrText(m.errno))

path_kind_result(f, path) ==
    LET m == metadata(f, path)
    IN  IF m.ok THEN Ok(IF m.is_dir THEN "folder" ELSE "file")
        ELSE Err(ErrText(m.errno))

path_kind(path) ==
    /\ MainThreadFree
    /\ Return("path_kind", path, path_kind_result(fs, path))
    /\ UNCHANGED <<target_os, fs, fs0, running, mark, procs, tasks, wire>>

-----------------------------------------------------------------------------
(* save_text_file: fs::write(path, contents) is File::create followed by   *)
(* write_all; the handler is on the main thread from one to the other.     *)

SaveFrame(path, contents) ==
    [cmd |-> "save_text_file", path |-> path, contents |-> contents]

Saved(text) == [state |-> "saved", text |-> text]

Torn(text) == [state |-> "torn", text |-> text]

Prior == [state |-> "prior", text |-> <<>>]

\* mark holds the paths a save has got to write to; the others are as at start-up
MarkOf(p) == IF p \in DOMAIN mark THEN mark[p] ELSE Prior

\* what fs::write's error becomes: map_err(|e| e.to_string())
save_err(errno) == Err(ErrText(errno))

\* the handler is invoked and opens the file
save_text_file(path, contents) ==
    /\ MainThreadFree
    /\ \E room \in BOOLEAN :
         LET o == FileCreate(fs, path, room)
         IN  IF o.ok
             THEN /\ fs' = o.fs
                  /\ running' = running \cup {SaveFrame(path, contents)}
                  /\ UNCHANGED <<last, mark>>
             ELSE /\ Return("save_text_file", path, save_err(o.errno))
                  /\ UNCHANGED <<fs, running, mark>>
    /\ UNCHANGED <<target_os, fs0, procs, tasks, wire>>

\* the handler writes the bytes and returns
save_text_file_write(fr) ==
    /\ fr \in running
    /\ fr.cmd = "save_text_file"
    /\ LET bytes == as_bytes(fr.contents)
       IN  \E k \in 0..Len(bytes) :
             LET w == WriteAll(fs, fr.path, bytes, k)
             IN  /\ k < Len(bytes) => fs[fr.path].kind = "file"
                 /\ fs' = w.fs
                 /\ mark' = (fr.path :> IF w.ok THEN Saved(fr.contents)
                                         ELSE Torn(fr.contents)) @@ mark
                 /\ Return("save_text_file", fr.path,
                           IF w.ok THEN Ok(Unit) ELSE save_err("ENOSPC"))
    /\ running' = running \ {fr}
    /\ UNCHANGED <<target_os, fs0, procs, tasks, wire>>

-----------------------------------------------------------------------------
(* read_text_file *)

read_text_file(path) ==
    /\ MainThreadFree
    /\ Return("read_text_file", path, read_to_string(fs, path))
    /\ UNCHANGED <<target_os, fs, fs0, running, mark, procs, tasks, wire>>

-----------------------------------------------------------------------------
(* open_url, open_folder, reveal_in_finder: Command::new(..).spawn()       *)

Launchers == {"open_url", "open_folder", "reveal_in_finder"}

Urls == {"https://example.org/", "not a url"}

open_url_command(url) ==
    CASE target_os = "macos"   -> [program |-> "open", args |-> <<url>>]
      [] target_os = "windows" ->
            [program |-> "cmd", args |-> <<"/C", "start", "", url>>]
      [] target_os = "linux"   -> [program |-> "xdg-open", args |-> <<url>>]

open_folder_command(path) ==
    CASE target_os = "macos"   -> [program |-> "open", args |-> <<path>>]
      [] target_os = "windows" -> [program |-> "explorer", args |-> <<path>>]
      [] target_os = "linux"   -> [program |-> "xdg-open", args |-> <<path>>]

reveal_in_finder_command(path) ==
    CASE target_os = "macos"   -> [program |-> "open", args |-> <<"-R", path>>]
      [] target_os = "windows" ->
            [program |-> "explorer", args |-> <<"/select,", path>>]
      [] target_os = "linux"   -> [program |-> "xdg-open", args |-> <<path>>]

\* what the OS may answer to spawn(): the child runs, the program is not
\* installed, or no process can be created
SpawnOutcomes == {"OK", "ENOENT", "EAGAIN"}

\* faulty variant: the spawn error dropped: let _ = ....spawn(); Ok(())
spawn_result_ignored(outcome) == Ok(Unit)

\* .spawn().map_err(|e| e.to_string())?; Ok(())
spawn_result(outcome) ==
    IF outcome = "OK" THEN Ok(Unit) ELSE Err(ErrText(outcome))

Launch(cmd, arg, c) ==
    /\ MainThreadFree
    /\ Len(procs) < MaxProcs
    /\ \E outcome \in SpawnOutcomes :
         /\ procs' = Append(procs,
                [program |-> c.program, args |-> c.args,
                 state |-> IF outcome = "OK" THEN "running"
                           ELSE "spawn_failed"])
         /\ Return(cmd, arg, spawn_result(outcome))
    /\ UNCHANGED <<target_os, fs, fs0, running, mark, tasks, wire>>

open_url(url) == Launch("open_url", url, open_url_command(url))

open_folder(path) == Launch("open_folder", path, open_folder_command(path))

reveal_in_finder(path) ==
    Launch("reveal_in_finder", path, reveal_in_finder_command(path))

\* a spawned child ends, opening its target (0) or not (1); nobody waits for it
ChildExit(i) ==
    /\ i \in 1..Len(procs)
    /\ procs[i].state = "running"
    /\ \E code \in {"exited0", "exited1"} :
         procs' = [procs EXCEPT ![i].state = code]
    /\ UNCHANGED <<target_os, fs, fs0, running, last, mark, tasks, wire>>

-----------------------------------------------------------------------------
(* graph_device_code_start *)

scopes ==
    "offline_access openid profile email https://graph.microsoft.com/Calendars.ReadWrite https://graph.microsoft.com/User.Read"

DeviceCodeEndpoint ==
    "https://login.microsoftonline.com/organizations/oauth2/v2.0/devicecode"

ClientIds == {"app-1", ""}

\* Client::new().post(url).form(&body)
post_form(client_id) ==
    [method |-> "POST", url |-> DeviceCodeEndpoint,
     form |-> << <<"client_id", client_id>>, <<"scope", scopes>> >>]

\* Response bodies, as the tokens a JSON reader sees.
JsonPunct == {"{", "}", ":", ","}

JsonStrings ==
    {"device_code", "D-1", "user_code", "U-1", "error", "invalid_client"}

Bodies ==
    { <<"{", "device_code", ":", "D-1", ",", "user_code", ":", "U-1", "}">>,
      <<"{", "error", ":", "invalid_client", "}">>,
      <<"{", "error", ":", "{", "error", ":", "invalid_client", "}", "}">>,
      <<"{", "}">>,
      <<"{", "error", ":", "invalid_client">>,
      <<"<html>">>,
      <<>> }

Statuses == {200, 400}

\* serde_json reading one value from the front of toks:
\* [ok, val, rest]; an object becomes the function from its keys to its values
RECURSIVE ParseValue(_)
RECURSIVE ParseMembers(_, _)
ParseMembers(toks, obj) ==
    \* toks starts at a key; obj holds the members read so far
    IF Len(toks) < 3 \/ toks[1] \notin JsonStrings \/ toks[2] # ":"
    THEN [ok |-> FALSE, val |-> "-", rest |-> toks]
    ELSE LET v == ParseValue(SubSeq(toks, 3, Len(toks)))
         IN  IF ~v.ok THEN v
             ELSE LET key == toks[1]
                      more == [k \in (DOMAIN obj) \cup {key} |->
                                  IF k = key THEN v.val ELSE obj[k]]
                  IN  IF v.rest = <<>> THEN [ok |-> FALSE, val |-> "-",
                                             rest |-> v.rest]
                      ELSE IF Head(v.rest) = "}"
                      THEN [ok |-> TRUE, val |-> [object |-> more],
                            rest |-> Tail(v.rest)]
                      ELSE IF Head(v.rest) = ","
                      THEN ParseMembers(Tail(v.rest), more)
                      ELSE [ok |-> FALSE, val |-> "-", rest |-> v.rest]

ParseValue(toks) ==
    IF toks = <<>> THEN [ok |-> FALSE, val |-> "-", rest |-> toks]
    ELSE IF Head(toks) \in JsonStrings
    THEN [ok |-> TRUE, val |-> [string |-> Head(toks)], rest |-> Tail(toks)]
    ELSE IF Head(toks) = "{"
    THEN IF Len(toks) >= 2 /\ toks[2] = "}"
         THEN [ok |-> TRUE, val |-> [object |-> <<>>],
               rest |-> SubSeq(toks, 3, Len(toks))]
         ELSE ParseMembers(Tail(toks), <<>>)
    ELSE [ok |-> FALSE, val |-> "-", rest |-> toks]

\* serde_json::from_slice: one value, then the end of the input
from_slice(body) ==
    LET v == ParseValue(body)
    IN  IF v.ok /\ v.rest = <<>> THEN [ok |-> TRUE, val |-> v.val]
        ELSE [ok |-> FALSE, val |-> "-"]

SendError == "error sending request"

DecodeError == "error decoding response body"

StatusError == "HTTP status client error"

\* faulty variant: the status checked first: resp.error_for_status()?.json()
json_for_status(resp, intact) ==
    IF resp.status \notin 200..299 THEN Err(StatusError)
    ELSE IF ~intact THEN Err(DecodeError)
    ELSE LET v == from_slice(resp.body)
         IN  IF v.ok THEN Ok(v.val) ELSE Err(DecodeError)

\* resp.json::<serde_json::Value>().await.map_err(|e| e.to_string())?; Ok(json)
\* intact: whether the whole body arrived
json(resp, intact) ==
    IF ~intact THEN Err(DecodeError)
    ELSE LET v == from_slice(resp.body)
         IN  IF v.ok THEN Ok(v.val) ELSE Err(DecodeError)

\* faulty variant: the command declared `fn`, waiting for the network where it runs
IsBlocking(cmd) == FALSE

\* `async fn`: the command runs as a future instead of on the main thread
IsAsync(cmd) == cmd = "graph_device_code_start"

GraphFrame(i) ==
    [cmd |-> "graph_device_code_start", path |-> "", contents |-> <<i>>]

\* the frames the command occupies the main thread with until it returns
Occupies(cmd, i) == IF IsAsync(cmd) THEN {} ELSE {GraphFrame(i)}

NoResp == [status |-> 0, body |-> <<>>]

\* the handler is invoked: it builds the request and awaits send()
graph_device_code_start(client_id) ==
    /\ MainThreadFree
    /\ Len(tasks) < MaxTasks
    /\ LET i == Len(tasks) + 1
       IN  /\ tasks' = Append(tasks,
                  [client_id |-> client_id, pc |-> "send", resp |-> NoResp,
                   intact |-> FALSE, ret |-> Err("pending")])
           /\ wire' = Append(wire, [task |-> i, req |-> post_form(client_id)])
           /\ running' = running \cup Occupies("graph_device_code_start", i)
    /\ UNCHANGED <<target_os, fs, fs0, last, mark, procs>>

GraphReturn(i, intact, ret) ==
    /\ tasks' = [tasks EXCEPT ![i].pc = "done", ![i].intact = intact,
                              ![i].ret = ret]
    /\ running' = running \ {GraphFrame(i)}

\* faulty variant: a failed send tried again
send_retries(i) ==
    /\ i \in 1..Len(tasks)
    /\ tasks[i].pc = "send"
    /\ Len(wire) < 2 * MaxTasks
    /\ wire' = Append(wire, [task |-> i, req |-> post_form(tasks[i].client_id)])
    /\ UNCHANGED <<target_os, fs, fs0, running, last, mark, procs, tasks>>

\* send().await fails: map_err(|e| e.to_string())?
send_fails(i) ==
    /\ i \in 1..Len(tasks)
    /\ tasks[i].pc = "send"
    /\ GraphReturn(i, FALSE, Err(SendError))
    /\ UNCHANGED <<target_os, fs, fs0, last, mark, procs, wire>>

\* send().await yields the response: the handler goes on to await json()
send_returns(i, status, body) ==
    /\ i \in 1..Len(tasks)
    /\ tasks[i].pc = "send"
    /\ tasks' = [tasks EXCEPT ![i].pc = "json",
                              ![i].resp = [status |-> status, body |-> body]]
    /\ UNCHANGED <<target_os, fs, fs0, running, last, mark, procs, wire>>

\* json().await completes and the handler returns
json_returns(i, intact) ==
    /\ i \in 1..Len(tasks)
    /\ tasks[i].pc = "json"
    /\ GraphReturn(i, intact, json(tasks[i].resp, intact))
    /\ UNCHANGED <<target_os, fs, fs0, last, mark, procs, wire>>

-----------------------------------------------------------------------------
(* Start-up. *)

\* what /d/a may hold at start-up: nothing, text, or bytes that are not UTF-8
\* ("old" followed by U+1F600, 4 bytes)
InitData == {<<>>, <<111, 108, 100, 240, 159, 152, 128>>, <<195, 40>>}

InitialNodes ==
    {Absent} \cup {File(b, TRUE, TRUE) : b \in InitData}
             \cup {File(<<111, 108, 100>>, TRUE, FALSE),
                   File(<<226, 130, 172>>, FALSE, TRUE)}

\* a writable directory /d holding /d/a and the device /d/null, a directory
\* /ro the process may not add to, a directory /priv it may not search, and
\* no /nx
FsWith(a) ==
    [p \in Paths |->
        CASE p = "/d"      -> Dir(TRUE, TRUE)
          [] p = "/d/a"    -> a
          [] p = "/d/null" -> Special
          [] p = "/ro"     -> Dir(TRUE, FALSE)
          [] p = "/priv"   -> Dir(FALSE, FALSE)
          [] p = "/priv/s" -> File(<<115>>, TRUE, TRUE)
          [] OTHER         -> Absent]

Init ==
    /\ target_os \in {"macos", "windows", "linux"}
    /\ fs0 \in {FsWith(a) : a \in InitialNodes}
    /\ fs = fs0
    /\ running = {}
    /\ last = NoReply
    /\ mark = <<>>
    /\ everSaved = {}
    /\ procs = <<>>
    /\ tasks = <<>>
    /\ wire = <<>>

\* the history of successful saves, kept by the specifications that need it
RecordSaves ==
    everSaved' =
        IF last'.cmd = "save_text_file" /\ last'.ret.ok
        THEN everSaved \cup {<<last'.arg, mark'[last'.arg].text>>}
        ELSE everSaved

-----------------------------------------------------------------------------
(* The file commands, invoked by name with any path and any text. *)

InvokePathKind ==
    /\ \E p \in Paths : Invoke("path_kind", path_kind(p))
    /\ UNCHANGED everSaved

InvokeSave ==
    /\ \E p \in Paths, t \in Texts :
         Invoke("save_text_file", save_text_file(p, t))
    /\ UNCHANGED everSaved

SaveWrites ==
    /\ \E fr \in running : save_text_file_write(fr)
    /\ UNCHANGED everSaved

InvokeRead ==
    /\ \E p \in Paths : Invoke("read_text_file", read_text_file(p))
    /\ UNCHANGED everSaved

InitFs == Init /\ target_os = "linux"

NextFs == InvokePathKind \/ InvokeSave \/ SaveWrites \/ InvokeRead

SpecFs == InitFs /\ [][NextFs]_vars

-----------------------------------------------------------------------------
(* The launcher commands, invoked by name, and the children they leave.    *)

InvokeOpenUrl ==
    /\ \E u \in Urls : Invoke("open_url", open_url(u))
    /\ UNCHANGED everSaved

InvokeOpenFolder ==
    /\ \E p \in {"/d", "/nx"} : Invoke("open_folder", open_folder(p))
    /\ UNCHANGED everSaved

InvokeReveal ==
    /\ \E p \in {"/d/a", "/nx/e"} :
         Invoke("reveal_in_finder", reveal_in_finder(p))
    /\ UNCHANGED everSaved

ChildExits ==
    /\ \E i \in 1..Len(procs) : ChildExit(i)
    /\ UNCHANGED everSaved

InitShell == Init /\ fs0 = FsWith(Absent)

NextShell == InvokeOpenUrl \/ InvokeOpenFolder \/ InvokeReveal \/ ChildExits

SpecShell == InitShell /\ [][NextShell]_vars

-----------------------------------------------------------------------------
(* graph_device_code_start as a function: called with a client id, then    *)
(* resumed by the network at each of its two awaits.                       *)

CallGraph ==
    /\ \E c \in ClientIds : graph_device_code_start(c)
    /\ UNCHANGED everSaved

SendFails ==
    /\ \E i \in 1..Len(tasks) : send_fails(i)
    /\ UNCHANGED everSaved

SendReturns ==
    /\ \E i \in 1..Len(tasks), st \in Statuses, b \in Bodies :
         send_returns(i, st, b)
    /\ UNCHANGED everSaved

JsonReturns ==
    /\ \E i \in 1..Len(tasks), intact \in BOOLEAN : json_returns(i, intact)
    /\ UNCHANGED everSaved

InitGraph == Init /\ target_os = "linux" /\ fs0 = FsWith(Absent)

NextGraph == CallGraph \/ SendFails \/ SendReturns \/ JsonReturns

SpecGraph == InitGraph /\ [][NextGraph]_vars

-----------------------------------------------------------------------------
(* The file commands beside outstanding graph_device_code_start futures,   *)
(* with the history of successful saves recorded.                          *)

AsyncTexts == {<<>>, <<233>>, <<8364, 65>>}

AsyncPaths == {"/d/a", "/nx/e"}

AsyncCallGraph ==
    /\ graph_device_code_start("app-1")
    /\ RecordSaves

AsyncSendFails ==
    /\ \E i \in 1..Len(tasks) : send_fails(i)
    /\ RecordSaves

AsyncSendReturns ==
    /\ \E i \in 1..Len(tasks) :
         send_returns(i, 400, <<"{", "error", ":", "invalid_client", "}">>)
    /\ RecordSaves

AsyncJsonReturns ==
    /\ \E i \in 1..Len(tasks) : json_returns(i, TRUE)
    /\ RecordSaves

AsyncPathKind ==
    /\ \E p \in AsyncPaths : Invoke("path_kind", path_kind(p))
    /\ RecordSaves

AsyncSave ==
    /\ \E p \in AsyncPaths, t \in AsyncTexts :
         Invoke("save_text_file", save_text_file(p, t))
    /\ RecordSaves

AsyncSaveWrites ==
    /\ \E fr \in running : save_text_file_write(fr)
    /\ RecordSaves

AsyncRead ==
    /\ \E p \in AsyncPaths : Invoke("read_text_file", read_text_file(p))
    /\ RecordSaves

InitAsync ==
    /\ Init
    /\ target_os = "linux"
    /\ fs0 \in {FsWith(Absent),
                FsWith(File(<<111, 108, 100, 240, 159, 152, 128>>, TRUE, TRUE))}

NextAsync ==
    \/ AsyncCallGraph \/ AsyncSendFails \/ AsyncSendReturns \/ AsyncJsonReturns
    \/ AsyncPathKind \/ AsyncSave \/ AsyncSaveWrites \/ AsyncRead

SpecAsync == InitAsync /\ [][NextAsync]_vars

-----------------------------------------------------------------------------
(* The application: the front end invokes any name of the command surface; *)
(* the runtime dispatches it through the table main() registered.  A name  *)
(* the table does not hold never reaches its handler, so no future of      *)
(* graph_device_code_start exists for the network to resume.               *)

Handler(name, path, text, url, client_id) ==
    CASE name = "open_url"         -> open_url(url)
      [] name = "open_folder"      -> open_folder(path)
      [] name = "reveal_in_finder" -> reveal_in_finder(path)
      [] name = "path_kind"        -> path_kind(path)
      [] name = "save_text_file"   -> save_text_file(path, text)
      [] name = "read_text_file"   -> read_text_file(path)
      [] name = "graph_device_code_start" ->
            graph_device_code_start(client_id)

Dispatch ==
    /\ \E name \in CommandSurface, p \in {"/d/a", "/nx"}, t \in {<<233>>} :
         Invoke(name, Handler(name, p, t, "https://example.org/", "app-1"))
    /\ UNCHANGED everSaved

InitApp == Init /\ fs0 = FsWith(Absent)

Next == Dispatch \/ SaveWrites \/ ChildExits

Spec == InitApp /\ [][Next]_vars

-----------------------------------------------------------------------------
(* Properties. *)

Errnos == {"ENOENT", "EACCES", "ENOTDIR", "EISDIR", "ENOSPC", "EAGAIN",
           "INVALID_UTF8"}

\* the non-empty texts an io::Error prints
OsErrorTexts == {ErrText(e) : e \in Errnos} \ {""}

\* p's directory can be walked to: it is a directory the process may search
Reachable(f, p) ==
    NodeAt(f, Parent(p)).kind = "dir" /\ NodeAt(f, Parent(p)).r

\* this step is read_text_file replying
ReadReplies == last' # last /\ last'.cmd = "read_text_file"

\* b is a proper prefix of c
ProperPrefix(b, c) == Len(b) < Len(c) /\ b = SubSeq(c, 1, Len(b))

(* C1, as claimed: whenever save_text_file(P, T) has returned Ok and the    *)
(* very next command is read_text_file(P), that read returns Ok(T), for     *)
(* every path P at which the write succeeded.                               *)
C1_RoundTripEveryPath ==
    [][ ( /\ last.cmd = "save_text_file" /\ last.ret.ok
          /\ last'.cmd = "read_text_file" /\ last'.arg = last.arg )
        => last'.ret = Ok(MarkOf(last.arg).text) ]_vars

(* C1, amended: whenever save_text_file(P, T) has returned Ok, P is then a  *)
(* regular file the process may read, and the very next command is          *)
(* read_text_file(P), that read returns Ok(T): byte for byte the text       *)
(* saved, empty and multi-byte texts included.                              *)
C1_RoundTrip ==
    [][ ( /\ last.cmd = "save_text_file" /\ last.ret.ok
          /\ last'.cmd = "read_text_file" /\ last'.arg = last.arg
          /\ fs[last.arg].kind = "file" /\ fs[last.arg].r )
        => last'.ret = Ok(MarkOf(last.arg).text) ]_vars

\* a read has returned the multi-byte text the save before it created the file with
C1_Witness ==
    /\ last.cmd = "read_text_file" /\ last.ret.ok
    /\ running = {}
    /\ fs0[last.arg].kind = "absent"
    /\ MarkOf(last.arg) = Saved(<<8364, 65>>)
    /\ last.ret.val = <<8364, 65>>

(* C2, as claimed: once a save on P has succeeded, read_text_file(P)        *)
(* returns Ok with exactly the text of the most recent successful save.     *)
C2_LatestSaveEveryPath ==
    ( /\ last.cmd = "read_text_file" /\ running = {}
      /\ MarkOf(last.arg).state = "saved" )
    => last.ret = Ok(MarkOf(last.arg).text)

(* C2, amended: once a save on P has succeeded and P is a regular file the *)
(* process may read, read_text_file(P) returns Ok with exactly the text of *)
(* the most recent successful save on P; no byte of an earlier, longer or  *)
(* shorter, content remains.                                               *)
C2_LatestSave ==
    ( /\ last.cmd = "read_text_file" /\ running = {}
      /\ MarkOf(last.arg).state = "saved"
      /\ fs[last.arg].kind = "file" /\ fs[last.arg].r )
    => ( /\ last.ret = Ok(MarkOf(last.arg).text)
         /\ fs[last.arg].data = as_bytes(MarkOf(last.arg).text) )

\* a read has returned a saved text shorter than what the file held at start-up
C2_Witness ==
    /\ last.cmd = "read_text_file" /\ last.ret.ok
    /\ running = {}
    /\ MarkOf(last.arg).state = "saved"
    /\ fs0[last.arg].kind = "file"
    /\ Len(fs[last.arg].data) > 0
    /\ Len(fs[last.arg].data) < Len(fs0[last.arg].data)
    /\ last.ret.val = MarkOf(last.arg).text

(* C3: path_kind returns Ok("folder") exactly when the path's metadata can  *)
(* be obtained and is a directory's, Ok("file") exactly when it can be      *)
(* obtained and is anything else's, and an error with a non-empty message   *)
(* exactly when it cannot be obtained, as for every path that is absent;    *)
(* it returns nothing else.                                                 *)
C3_PathKindTotal ==
    (last.cmd = "path_kind" /\ running = {}) =>
        LET p == last.arg
            obtained == Reachable(fs, p) /\ fs[p].kind # "absent"
        IN  /\ last.ret.ok => last.ret.val \in {"folder", "file"}
            /\ (last.ret.ok /\ last.ret.val = "folder")
                   <=> (obtained /\ fs[p].kind = "dir")
            /\ (last.ret.ok /\ last.ret.val = "file")
                   <=> (obtained /\ fs[p].kind # "dir")
            /\ ~last.ret.ok <=> ~obtained
            /\ ~last.ret.ok => last.ret.err \in OsErrorTexts
            /\ fs[p].kind = "absent" => ~last.ret.ok

\* path_kind has answered "file" for a path that is a device, not a regular file
C3_Witness ==
    /\ last.cmd = "path_kind" /\ running = {}
    /\ fs[last.arg].kind = "special"
    /\ last.ret = Ok("file")

(* C4: read_text_file on a path that does not exist returns an error with  *)
(* a non-empty message and leaves the file system as it was: the path is   *)
(* still absent and no other path has changed.                             *)
C4_ReadMissing ==
    [][ (ReadReplies /\ fs[last'.arg].kind = "absent")
        => ( /\ ~last'.ret.ok
             /\ last'.ret.err \in OsErrorTexts
             /\ fs' = fs
             /\ fs'[last'.arg].kind = "absent" ) ]_vars

\* a read of an absent path in an existing directory has failed
C4_Witness ==
    /\ last.cmd = "read_text_file" /\ running = {}
    /\ fs[last.arg].kind = "absent"
    /\ Reachable(fs, last.arg)
    /\ ~last.ret.ok
    /\ last.ret.err = "No such file or directory (os error 2)"


(* C5: open_url, open_folder and reveal_in_finder reply Ok exactly when    *)
(* the spawn produced a child and an error text exactly when the spawn     *)
(* itself failed; the reply is given while the child still runs, and a     *)
(* child ending later, with whatever status, changes no reply.             *)
C5_SpawnDecides ==
    [][ /\ (last' # last /\ last'.cmd \in Launchers) =>
              Len(procs') = Len(procs) + 1
        /\ Len(procs') > Len(procs) =>
              LET child == procs'[Len(procs')]
              IN  /\ last'.cmd \in Launchers
                  /\ SubSeq(procs', 1, Len(procs)) = procs
                  /\ last'.ret.ok <=> child.state = "running"
                  /\ ~last'.ret.ok <=> child.state = "spawn_failed"
                  /\ last'.ret.ok => last'.ret.val = Unit
                  /\ ~last'.ret.ok => last'.ret.err \in OsErrorTexts
        /\ (Len(procs') = Len(procs) /\ procs' # procs) => last' = last
      ]_vars

\* a launcher has replied Ok and its child has since ended without opening the target
C5_Witness ==
    /\ last.cmd \in Launchers /\ last.ret.ok
    /\ Len(procs) > 0
    /\ procs[Len(procs)].state = "exited1"

\* what the graph handler sent and got, as the network saw it
Delivered(t) == t.resp # NoResp

BodyParses(t) == t.intact /\ from_slice(t.resp.body).ok

(* C6: graph_device_code_start returns Ok with the parsed body, unchanged, *)
(* exactly when a response was delivered and its body arrived and parses   *)
(* as JSON, whatever the HTTP status; it returns a non-empty error text    *)
(* exactly when sending failed or the body did not arrive or parse.        *)
C6_StatusIgnored ==
    \A i \in 1..Len(tasks) :
        tasks[i].pc = "done" =>
            LET t == tasks[i]
            IN  /\ t.ret.ok <=> (Delivered(t) /\ BodyParses(t))
                /\ t.ret.ok => t.ret.val = from_slice(t.resp.body).val
                /\ ~t.ret.ok => t.ret.err \in {SendError, DecodeError}
                /\ (t.ret.ok = FALSE /\ t.ret.err = SendError) <=> ~Delivered(t)

\* a 400 response with a JSON body has been returned as Ok with that body
C6_Witness ==
    \E i \in 1..Len(tasks) :
        /\ tasks[i].pc = "done"
        /\ tasks[i].resp.status = 400
        /\ tasks[i].resp.body = <<"{", "error", ":", "invalid_client", "}">>
        /\ tasks[i].ret.ok
        /\ tasks[i].ret.val.object["error"] = [string |-> "invalid_client"]

(* C7: every command of the command surface is in the command table, so an *)
(* invocation by any of its names, graph_device_code_start included, is    *)
(* dispatched to its handler and never answered "not found".               *)
C7_SurfaceRegistered ==
    last.cmd \in CommandSurface => last.ret # Err(NotFound(last.cmd))

\* save_text_file replies without having opened the file
SaveRefused ==
    last' # last /\ last'.cmd = "save_text_file" /\ running' = running

C8_Rest ==
    /\ \A fr \in running \ running' :
         /\ last'.cmd = "save_text_file" /\ last'.arg = fr.path
         /\ ~last'.ret.ok => last'.ret.err \in OsErrorTexts
         /\ \A q \in Paths \ {fr.path} : fs'[q] = fs[q]
    /\ \A fr \in running' \ running :
         LET p == fr.path
         IN  /\ Reachable(fs, p)
             /\ fs[p].kind \in {"absent", "file", "special"}
             /\ fs[p].kind = "absent" =>
                   /\ NodeAt(fs, Parent(p)).w
                   /\ fs'[p] = File(<<>>, TRUE, TRUE)
             /\ fs[p].kind = "file" =>
                   fs[p].w /\ fs'[p] = [fs[p] EXCEPT !.data = <<>>]
             /\ \A q \in Paths \ {p} : fs'[q] = fs[q]
    /\ SaveRefused =>
         LET p == last'.arg
         IN  /\ fs' = fs
             /\ ~last'.ret.ok
             /\ last'.ret.err \in OsErrorTexts
             /\ ~(Reachable(fs, p) /\ fs[p].kind = "file" /\ fs[p].w)
             /\ (Reachable(fs, p) /\ fs[p].kind = "absent"
                    /\ NodeAt(fs, Parent(p)).w)
                  => last'.ret.err = "No space left on device (os error 28)"
             /\ NodeAt(fs, Parent(p)).kind = "absent" =>
                  /\ last'.ret.err = "No such file or directory (os error 2)"
                  /\ fs'[p].kind = "absent"
                  /\ NodeAt(fs', Parent(p)).kind = "absent"

(* C8, as claimed: save_text_file(P, T) creates P with content T when P is *)
(* absent in a writable directory and replaces the content when P exists,  *)
(* so that P holds exactly T whenever it returns Ok; it refuses no         *)
(* existing writable file; every failure is an OS error text; a missing    *)
(* parent directory leaves P and the parent absent.                        *)
C8_SaveEveryPath ==
    [][ /\ C8_Rest
        /\ \A fr \in running \ running' :
             last'.ret.ok => fs'[fr.path].data = as_bytes(fr.contents)
      ]_vars

(* C8, amended: save_text_file(P, T) creates P when P is absent in a       *)
(* writable directory and truncates it when it is an existing writable     *)
(* regular file, with no existence check, and on Ok a regular file P holds *)
(* exactly T, while a special file P is left as it was; every failure is   *)
(* an OS error text; a missing parent directory leaves P and the parent    *)
(* absent.                                                                 *)
C8_Save ==
    [][ /\ C8_Rest
        /\ \A fr \in running \ running' :
             last'.ret.ok =>
                 IF fs'[fr.path].kind = "file"
                 THEN fs'[fr.path].data = as_bytes(fr.contents)
                 ELSE fs'[fr.path].kind = "special" /\ fs' = fs
      ]_vars

\* a save has created a file that was absent at start-up, with multi-byte text
C8_Witness ==
    /\ last.cmd = "save_text_file" /\ last.ret.ok /\ running = {}
    /\ fs0[last.arg].kind = "absent"
    /\ fs[last.arg].kind = "file"
    /\ MarkOf(last.arg) = Saved(<<233>>)
    /\ fs[last.arg].data = <<195, 169>>

\* an outstanding graph_device_code_start keeps no other command from
\* starting, nor a started one from returning
NonBlocking ==
    (\E i \in 1..Len(tasks) : tasks[i].pc # "done") =>
        /\ running = {} =>
              (ENABLED AsyncRead /\ ENABLED AsyncSave /\ ENABLED AsyncPathKind)
        /\ running # {} => ENABLED AsyncSaveWrites

\* at most one synchronous handler is between invocation and return
Serial ==
    /\ Cardinality(running) <= 1
    /\ \A fr \in running : fr.cmd = "save_text_file"

C9_Rest == NonBlocking /\ Serial

Settled(p, ret) ==
    LET m == MarkOf(p)
    IN  CASE m.state = "prior" ->
                fs0[p].kind = "file" /\ fs[p].data = fs0[p].data
          [] m.state = "saved" -> ret = Ok(m.text)
          [] m.state = "torn"  ->
                /\ ProperPrefix(fs[p].data, as_bytes(m.text))
                /\ ret.ok => as_bytes(ret.val) = fs[p].data

=============================================================================
